---- MODULE Spec2Model ----
(***************************************************************************)
(* A model of translate.py: the segment merger post_process_segments, the  *)
(* line wrapper wrap_text, the timestamp formatter format_timestamp and    *)
(* the orchestrator generate_srt_subtitles_with_whisper_deepl.             *)
(*                                                                         *)
(* A Python str is a sequence of one-character strings, so that len, +,   *)
(* strip, split and join are computed and not assumed.                     *)
(***************************************************************************)
EXTENDS Integers, Sequences, FiniteSets, TLC

VARIABLES
    \* post_process_segments: its arguments, its locals, its position
    segments, min_sub_duration, max_sub_duration, merge_gap_threshold,
    max_chars_per_subtitle, i, current_sub, processed_subs, mpc,
    \* history of the merger: input segments in the accumulator, and for each
    \* closed record the number of its input segments and its end before the stretch
    parts, built,
    \* wrap_text: its arguments, its locals, its position, its return value
    text, max_chars_per_line, words, w, lines, current_line,
    current_line_length, wrapped, wpc,
    \* generate_srt_subtitles_with_whisper_deepl: files, collaborators, position
    pc, temp_audio, audio_created, result, processed, translator, srt_file,
    srt, n, calls, exit_status

mergeVars == <<segments, min_sub_duration, max_sub_duration, merge_gap_threshold,
               max_chars_per_subtitle, i, current_sub, processed_subs, mpc,
               parts, built>>
wrapVars == <<text, max_chars_per_line, words, w, lines, current_line,
              current_line_length, wrapped, wpc>>
runVars == <<pc, temp_audio, audio_created, result, processed, translator,
             srt_file, srt, n, calls, exit_status>>
vars == <<mergeVars, wrapVars, runVars>>

----------------------------------------------------------------------------
(* Configuration of the program *)

MIN_SUB_DURATION_MS == 1500
MAX_SUB_DURATION_MS == 7000
MERGE_GAP_THRESHOLD_MS == 500
MAX_CHARS_PER_LINE == 60
MAX_CHARS_PER_SUBTITLE == 120

----------------------------------------------------------------------------
(* Bounds of the model *)

\* the transcriber's times are fractions of a second, here whole multiples of
\* 1/(1000 * TicksPerMs) s
TicksPerMs == 2
\* the merger is given at most this many segments
MaxSegs == 3
\* ... whose start and end lie in 0 .. MaxMs milliseconds
MaxMs == 4
\* the merger's parameters
MinDur == 2
MaxDur == 3
Gap == 1
MaxChars == 3
\* wrap_text is given a text of at most this many characters
MaxTextLen == 7
\* ... and a limit in 1 .. MaxLineChars
MaxLineChars == 4
\* the orchestrator's transcript has at most this many segments
MaxRunSegs == 2

----------------------------------------------------------------------------
(* str *)

IsSpace(c) == c \in {" ", "\n"}

RECURSIVE lstrip(_)
lstrip(s) == IF s # <<>> /\ IsSpace(Head(s)) THEN lstrip(Tail(s)) ELSE s

RECURSIVE rstrip(_)
rstrip(s) ==
    IF s # <<>> /\ IsSpace(s[Len(s)]) THEN rstrip(SubSeq(s, 1, Len(s) - 1)) ELSE s

strip(s) == rstrip(lstrip(s))

\* the length of the run of non-space characters s starts with
RECURSIVE WordLen(_)
WordLen(s) == IF s = <<>> \/ IsSpace(Head(s)) THEN 0 ELSE 1 + WordLen(Tail(s))

\* str.split(): the maximal runs of non-space characters
RECURSIVE split(_)
split(s) ==
    LET t == lstrip(s)
        k == WordLen(t)
    IN  IF t = <<>> THEN <<>>
        ELSE <<SubSeq(t, 1, k)>> \o split(SubSeq(t, k + 1, Len(t)))

\* sep.join(list)
RECURSIVE join(_, _)
join(sep, list) ==
    IF list = <<>> THEN <<>>
    ELSE IF Len(list) = 1 THEN list[1]
    ELSE list[1] \o sep \o join(sep, Tail(list))

----------------------------------------------------------------------------
(* post_process_segments *)

\* int(seconds * 1000) of a non-negative time
ToMs(t) == t \div TicksPerMs

\* the three values computed for the next segment
gap_to_next(cur, segment) == ToMs(segment.start) - cur.end_ms
merged_text_length_NoSeparator(cur, segment) ==
    Len(cur.text \o strip(segment.text))

merged_text_length(cur, segment) == Len(cur.text \o <<" ">> \o strip(segment.text))
merged_duration(cur, segment) == ToMs(segment.end) - cur.start_ms

ShouldMerge_GapInclusive(cur, segment, max_dur, gap, max_chars) ==
    /\ gap_to_next(cur, segment) <= gap
    /\ merged_text_length(cur, segment) <= max_chars
    /\ merged_duration(cur, segment) <= max_dur

ShouldMerge(cur, segment, max_dur, gap, max_chars) ==
    /\ gap_to_next(cur, segment) < gap
    /\ merged_text_length(cur, segment) <= max_chars
    /\ merged_duration(cur, segment) <= max_dur

NewSub(segment) ==
    [text |-> strip(segment.text),
     start_ms |-> ToMs(segment.start),
     end_ms |-> ToMs(segment.end)]

MergedSub(cur, segment) ==
    [cur EXCEPT !.text = @ \o <<" ">> \o strip(segment.text),
                !.end_ms = ToMs(segment.end)]

\* the record closed when the next segment is not merged
ClosedInLoop(cur, min_dur) ==
    IF cur.end_ms - cur.start_ms < min_dur
    THEN [cur EXCEPT !.end_ms = cur.start_ms + min_dur]
    ELSE cur

ClosedAtEnd_NoStretch(cur, min_dur) == cur

\* the record closed after the loop
ClosedAtEnd(cur, min_dur) ==
    IF cur.end_ms - cur.start_ms < min_dur
    THEN [cur EXCEPT !.end_ms = cur.start_ms + min_dur]
    ELSE cur

\* the loop from segment k on, as a function of the accumulator and the output
RECURSIVE MergeFrom(_, _, _, _, _, _, _, _)
MergeFrom(segs, k, cur, out, min_dur, max_dur, gap, max_chars) ==
    IF k > Len(segs) THEN Append(out, ClosedAtEnd(cur, min_dur))
    ELSE IF ShouldMerge(cur, segs[k], max_dur, gap, max_chars)
    THEN MergeFrom(segs, k + 1, MergedSub(cur, segs[k]), out,
                   min_dur, max_dur, gap, max_chars)
    ELSE MergeFrom(segs, k + 1, NewSub(segs[k]),
                   Append(out, ClosedInLoop(cur, min_dur)),
                   min_dur, max_dur, gap, max_chars)

post_process_segments(segs, min_dur, max_dur, gap, max_chars) ==
    IF segs = <<>> THEN <<>>
    ELSE MergeFrom(segs, 2, NewSub(segs[1]), <<>>, min_dur, max_dur, gap, max_chars)

NoSub == [text |-> <<>>, start_ms |-> 0, end_ms |-> 0]

\* lines 85-93
Seed ==
    /\ mpc = "call"
    /\ IF segments = <<>>
       THEN /\ mpc' = "returned"
            /\ UNCHANGED <<current_sub, parts>>
       ELSE /\ current_sub' = NewSub(segments[1])
            /\ parts' = 1
            /\ mpc' = "loop"
    /\ i' = 1
    /\ processed_subs' = <<>>
    /\ built' = <<>>
    /\ UNCHANGED <<segments, min_sub_duration, max_sub_duration,
                   merge_gap_threshold, max_chars_per_subtitle>>
    /\ UNCHANGED <<wrapVars, runVars>>

\* lines 95-109: the next segment is merged into current_sub
MergeSegment ==
    /\ mpc = "loop"
    /\ i < Len(segments)
    /\ ShouldMerge(current_sub, segments[i + 1], max_sub_duration,
                   merge_gap_threshold, max_chars_per_subtitle)
    /\ current_sub' = MergedSub(current_sub, segments[i + 1])
    /\ parts' = parts + 1
    /\ i' = i + 1
    /\ UNCHANGED <<processed_subs, built, mpc>>
    /\ UNCHANGED <<segments, min_sub_duration, max_sub_duration,
                   merge_gap_threshold, max_chars_per_subtitle>>
    /\ UNCHANGED <<wrapVars, runVars>>

\* lines 95-104, 110-118: current_sub is closed and the next segment starts a new one
CutSegment ==
    /\ mpc = "loop"
    /\ i < Len(segments)
    /\ ~ShouldMerge(current_sub, segments[i + 1], max_sub_duration,
                    merge_gap_threshold, max_chars_per_subtitle)
    /\ processed_subs' = Append(processed_subs,
                                ClosedInLoop(current_sub, min_sub_duration))
    /\ built' = Append(built, [parts |-> parts, end_ms |-> current_sub.end_ms])
    /\ current_sub' = NewSub(segments[i + 1])
    /\ parts' = 1
    /\ i' = i + 1
    /\ UNCHANGED mpc
    /\ UNCHANGED <<segments, min_sub_duration, max_sub_duration,
                   merge_gap_threshold, max_chars_per_subtitle>>
    /\ UNCHANGED <<wrapVars, runVars>>

\* lines 120-125
CloseFinal ==
    /\ mpc = "loop"
    /\ i = Len(segments)
    /\ processed_subs' = Append(processed_subs,
                                ClosedAtEnd(current_sub, min_sub_duration))
    /\ built' = Append(built, [parts |-> parts, end_ms |-> current_sub.end_ms])
    /\ mpc' = "returned"
    /\ UNCHANGED <<current_sub, parts, i>>
    /\ UNCHANGED <<segments, min_sub_duration, max_sub_duration,
                   merge_gap_threshold, max_chars_per_subtitle>>
    /\ UNCHANGED <<wrapVars, runVars>>

----------------------------------------------------------------------------
(* Inputs of the merger *)

\* the texts of the transcriber's segments, as Whisper gives them (with a
\* leading space) and already trimmed
SegmentTexts == { <<"a">>, <<" ", "a", "b">> }

Segment(t, s, e) == [text |-> t, start |-> s, end |-> e]

\* the non-decreasing sequences of m numbers in lo .. hi
RECURSIVE NonDecreasing(_, _, _)
NonDecreasing(m, lo, hi) ==
    IF m = 0 THEN { <<>> }
    ELSE UNION { { <<v>> \o r : r \in NonDecreasing(m - 1, v, hi) } : v \in lo .. hi }

Reverse(q) == [j \in 1 .. Len(q) |-> q[Len(q) + 1 - j]]

\* k segments sorted by start, no two overlapping, none ending before it starts;
\* every time is frac ticks after a whole millisecond
SortedSegments(k, ms, texts, frac) ==
    [j \in 1 .. k |-> Segment(texts[j], ms[2 * j - 1] * TicksPerMs + frac,
                                        ms[2 * j] * TicksPerMs + frac)]

IdleWrap ==
    /\ text = <<>> /\ max_chars_per_line = 1 /\ words = <<>> /\ w = 1
    /\ lines = <<>> /\ current_line = <<>> /\ current_line_length = 0
    /\ wrapped = <<>> /\ wpc = "idle"

IdleRun ==
    /\ pc = "idle" /\ temp_audio = FALSE /\ audio_created = FALSE
    /\ result = [done |-> FALSE, segments |-> <<>>] /\ processed = <<>>
    /\ translator = "none" /\ srt_file = "absent" /\ srt = <<>> /\ n = 0
    /\ calls = <<>> /\ exit_status = 0

IdleMerge ==
    /\ segments = <<>> /\ min_sub_duration = 0 /\ max_sub_duration = 0
    /\ merge_gap_threshold = 0 /\ max_chars_per_subtitle = 0 /\ i = 1
    /\ current_sub = NoSub /\ processed_subs = <<>> /\ mpc = "idle"
    /\ parts = 0 /\ built = <<>>

\* the caller passes segments that are sorted; the same segments in reverse order
\* are an input whose segments are well-formed and not sorted
InitMerge ==
    /\ \E k \in 0 .. MaxSegs :
         \E ms \in NonDecreasing(2 * k, 0, MaxMs), texts \in [1 .. k -> SegmentTexts],
            frac \in 0 .. TicksPerMs - 1 :
            LET q == SortedSegments(k, ms, texts, frac)
            IN  segments \in {q, Reverse(q)}
    /\ min_sub_duration = MinDur
    /\ max_sub_duration = MaxDur
    /\ merge_gap_threshold \in {Gap, Gap + 1}
    /\ max_chars_per_subtitle = MaxChars
    /\ i = 1 /\ current_sub = NoSub /\ processed_subs = <<>> /\ mpc = "call"
    /\ parts = 0 /\ built = <<>>
    /\ IdleWrap
    /\ IdleRun

NextMerge == Seed \/ MergeSegment \/ CutSegment \/ CloseFinal

SpecMerge == InitMerge /\ [][NextMerge]_vars

----------------------------------------------------------------------------
(* wrap_text *)

\* one pass of the loop body: the locals after `word`.
\* line 69 reads current_line after line 68 has appended the word to it
WrapWord(st, word, max_chars) ==
    IF st.current_line_length + Len(word)
         + (IF st.current_line # <<>> THEN 1 ELSE 0) <= max_chars
    THEN [lines |-> st.lines,
          current_line |-> Append(st.current_line, word),
          current_line_length |->
              st.current_line_length + Len(word)
                + (IF Append(st.current_line, word) # <<>> THEN 1 ELSE 0)]
    ELSE [lines |-> Append(st.lines, join(<<" ">>, st.current_line)),
          current_line |-> <<word>>,
          current_line_length |-> Len(word)]

RECURSIVE WrapFrom(_, _, _, _)
WrapFrom(ws, k, st, max_chars) ==
    IF k > Len(ws) THEN st
    ELSE WrapFrom(ws, k + 1, WrapWord(st, ws[k], max_chars), max_chars)

WrapStart == [lines |-> <<>>, current_line |-> <<>>, current_line_length |-> 0]

wrap_text(t, max_chars) ==
    LET st == WrapFrom(split(t), 1, WrapStart, max_chars)
    IN  join(<<"\n">>, Append(st.lines, join(<<" ">>, st.current_line)))

WrapLocals == [lines |-> lines, current_line |-> current_line,
               current_line_length |-> current_line_length]

\* lines 61-64
WrapCall ==
    /\ wpc = "call"
    /\ words' = split(text)
    /\ lines' = <<>> /\ current_line' = <<>> /\ current_line_length' = 0
    /\ w' = 1
    /\ wpc' = "loop"
    /\ UNCHANGED <<text, max_chars_per_line, wrapped>>
    /\ UNCHANGED <<mergeVars, runVars>>

\* lines 66-73: the next word is put on a line
WrapLoop ==
    /\ wpc = "loop"
    /\ w <= Len(words)
    /\ LET st == WrapWord(WrapLocals, words[w], max_chars_per_line)
       IN  /\ lines' = st.lines
           /\ current_line' = st.current_line
           /\ current_line_length' = st.current_line_length
    /\ w' = w + 1
    /\ UNCHANGED <<text, max_chars_per_line, words, wrapped, wpc>>
    /\ UNCHANGED <<mergeVars, runVars>>

\* lines 74-75
WrapReturn ==
    /\ wpc = "loop"
    /\ w > Len(words)
    /\ lines' = Append(lines, join(<<" ">>, current_line))
    /\ wrapped' = join(<<"\n">>, lines')
    /\ wpc' = "returned"
    /\ UNCHANGED <<text, max_chars_per_line, words, w, current_line,
                   current_line_length>>
    /\ UNCHANGED <<mergeVars, runVars>>

\* the characters of the texts wrap_text is given
WrapChars == {"a", " "}

InitWrap ==
    /\ \E k \in 0 .. MaxTextLen : text \in [1 .. k -> WrapChars]
    /\ max_chars_per_line \in 1 .. MaxLineChars
    /\ words = <<>> /\ w = 1 /\ lines = <<>> /\ current_line = <<>>
    /\ current_line_length = 0 /\ wrapped = <<>> /\ wpc = "call"
    /\ IdleMerge
    /\ IdleRun

NextWrap == WrapCall \/ WrapLoop \/ WrapReturn

SpecWrap == InitWrap /\ [][NextWrap]_vars

----------------------------------------------------------------------------
(* format_timestamp *)

Digit(d) == <<"0", "1", "2", "3", "4", "5", "6", "7", "8", "9">>[d + 1]

\* str(int(v))
RECURSIVE Decimal(_)
Decimal(v) == IF v < 10 THEN <<Digit(v)>> ELSE Decimal(v \div 10) \o <<Digit(v % 10)>>

\* f"{v:0width}": zeros on the left up to the width, never a digit dropped
ZeroPadded(v, width) ==
    LET d == Decimal(v)
    IN  IF Len(d) >= width THEN d ELSE [j \in 1 .. width - Len(d) |-> "0"] \o d

format_timestamp(milliseconds) ==
    LET hours == milliseconds \div 3600000
        ms1 == milliseconds % 3600000
        minutes == ms1 \div 60000
        ms2 == ms1 % 60000
        seconds == ms2 \div 1000
        ms3 == ms2 % 1000
    IN  ZeroPadded(hours, 2) \o <<":">> \o ZeroPadded(minutes, 2) \o <<":">>
          \o ZeroPadded(seconds, 2) \o <<",">> \o ZeroPadded(ms3, 3)

----------------------------------------------------------------------------
(* translate_with_deepl *)

TRANSLATION_ERROR ==
    <<"[", "T", "R", "A", "N", "S", "L", "A", "T", "I", "O", "N", " ",
      "E", "R", "R", "O", "R", "]", ":", " ">>
UNEXPECTED_ERROR ==
    <<"[", "U", "N", "E", "X", "P", "E", "C", "T", "E", "D", " ",
      "E", "R", "R", "O", "R", "]", ":", " ">>

translate_with_deepl_TagOnly(t, reply) ==
    CASE reply.kind = "ok" -> reply.text
      [] reply.kind = "DeepLException" -> TRANSLATION_ERROR
      [] OTHER -> UNEXPECTED_ERROR

\* reply: what translator_obj.translate_text does, a text or an exception
translate_with_deepl(t, reply) ==
    CASE reply.kind = "ok" -> reply.text
      [] reply.kind = "DeepLException" -> TRANSLATION_ERROR \o t
      [] OTHER -> UNEXPECTED_ERROR \o t

----------------------------------------------------------------------------
(* generate_srt_subtitles_with_whisper_deepl *)

\* what the translation service answers
TranslatedTexts == { <<"o", "i">>, <<"o", "i", " ", "t", "u">> }
Replies ==
    { [kind |-> "ok", text |-> t] : t \in TranslatedTexts }
      \cup { [kind |-> "DeepLException", text |-> <<>>],
             [kind |-> "Exception", text |-> <<>>] }

\* what the transcriber returns: sorted segments that do not overlap, with
\* times (in milliseconds) among these
RunMs == <<0, 1000, 1200, 1900, 3661005>>
RunTexts == { <<" ", "o", "k">>, <<"g", "o">> }
Transcripts ==
    UNION { { [j \in 1 .. k |->
                 Segment(texts[j], RunMs[at[2 * j - 1]] * TicksPerMs + frac,
                                   RunMs[at[2 * j]] * TicksPerMs + frac)]
              : at \in NonDecreasing(2 * k, 1, Len(RunMs)),
                texts \in [1 .. k -> RunTexts],
                frac \in {0, TicksPerMs - 1} }
            : k \in 0 .. MaxRunSegs }

\* an exception nobody catches ends the run
Crash ==
    /\ pc' = "crashed"
    /\ exit_status' = 1

\* lines 135-139
ExtractAudio ==
    /\ pc = "start"
    /\ \/ /\ temp_audio' = TRUE
          /\ audio_created' = TRUE
          /\ pc' = "transcribe"
          /\ UNCHANGED exit_status
       \/ /\ Crash
          /\ UNCHANGED <<temp_audio, audio_created>>
    /\ UNCHANGED <<result, processed, translator, srt_file, srt, n, calls>>
    /\ UNCHANGED <<mergeVars, wrapVars>>

\* lines 141-147
Transcribe ==
    /\ pc = "transcribe"
    /\ \/ /\ \E q \in Transcripts : result' = [done |-> TRUE, segments |-> q]
          /\ pc' = "post_process"
          /\ UNCHANGED exit_status
       \/ /\ Crash
          /\ UNCHANGED result
    /\ UNCHANGED <<temp_audio, audio_created, processed, translator, srt_file,
                   srt, n, calls>>
    /\ UNCHANGED <<mergeVars, wrapVars>>

\* lines 149-156
PostProcess ==
    /\ pc = "post_process"
    /\ processed' = post_process_segments(result.segments, MIN_SUB_DURATION_MS,
                        MAX_SUB_DURATION_MS, MERGE_GAP_THRESHOLD_MS,
                        MAX_CHARS_PER_SUBTITLE)
    /\ pc' = "connect"
    /\ UNCHANGED <<temp_audio, audio_created, result, translator, srt_file,
                   srt, n, calls, exit_status>>
    /\ UNCHANGED <<mergeVars, wrapVars>>

ConnectDeepL_NoExit ==
    /\ pc = "connect"
    /\ \/ translator' = "authenticated"
       \/ UNCHANGED translator
    /\ pc' = "open"
    /\ UNCHANGED <<temp_audio, audio_created, result, processed, srt_file,
                   srt, n, calls, exit_status>>
    /\ UNCHANGED <<mergeVars, wrapVars>>

\* lines 158-165
ConnectDeepL ==
    /\ pc = "connect"
    /\ \/ /\ translator' = "authenticated"
          /\ pc' = "open"
          /\ UNCHANGED exit_status
       \/ /\ pc' = "exited"
          /\ exit_status' = 1
          /\ UNCHANGED translator
    /\ UNCHANGED <<temp_audio, audio_created, result, processed, srt_file,
                   srt, n, calls>>
    /\ UNCHANGED <<mergeVars, wrapVars>>

\* line 168
OpenSrt ==
    /\ pc = "open"
    /\ \/ /\ srt_file' = "open"
          /\ srt' = <<>>
          /\ n' = 0
          /\ pc' = "write"
          /\ UNCHANGED exit_status
       \/ /\ Crash
          /\ UNCHANGED <<srt_file, srt, n>>
    /\ UNCHANGED <<temp_audio, audio_created, result, processed, translator, calls>>
    /\ UNCHANGED <<mergeVars, wrapVars>>

\* lines 169-177: one pass of the loop; leaving the with block closes the file
WriteRecord ==
    /\ pc = "write"
    /\ n < Len(processed)
    /\ \E reply \in Replies :
         LET sub == processed[n + 1]
             original_text == sub.text
             translated == translate_with_deepl(original_text, reply)
             wrapped_text == wrap_text(translated, MAX_CHARS_PER_LINE)
             start == format_timestamp(sub.start_ms)
             end == format_timestamp(sub.end_ms)
         IN  /\ calls' = Append(calls, [text |-> original_text, reply |-> reply])
             /\ \/ /\ srt' = Append(srt, [index |-> n + 1, start |-> start,
                                          end |-> end, text |-> wrapped_text])
                   /\ n' = n + 1
                   /\ UNCHANGED <<pc, srt_file, exit_status>>
                \/ /\ Crash
                   /\ srt_file' = "closed"
                   /\ UNCHANGED <<srt, n>>
    /\ UNCHANGED <<temp_audio, audio_created, result, processed, translator>>
    /\ UNCHANGED <<mergeVars, wrapVars>>

\* lines 168-177: the loop is over and the with block closes the file
CloseSrt ==
    /\ pc = "write"
    /\ n = Len(processed)
    /\ srt_file' = "closed"
    /\ pc' = "remove"
    /\ UNCHANGED <<temp_audio, audio_created, result, processed, translator,
                   srt, n, calls, exit_status>>
    /\ UNCHANGED <<mergeVars, wrapVars>>

\* lines 179-180
RemoveAudio ==
    /\ pc = "remove"
    /\ temp_audio' = FALSE
    /\ pc' = "done"
    /\ UNCHANGED <<audio_created, result, processed, translator, srt_file,
                   srt, n, calls, exit_status>>
    /\ UNCHANGED <<mergeVars, wrapVars>>

Init ==
    /\ pc = "start" /\ temp_audio = FALSE /\ audio_created = FALSE
    /\ result = [done |-> FALSE, segments |-> <<>>] /\ processed = <<>>
    /\ translator = "none" /\ srt_file = "absent" /\ srt = <<>> /\ n = 0
    /\ calls = <<>> /\ exit_status = 0
    /\ IdleMerge
    /\ IdleWrap

Next ==
    \/ ExtractAudio \/ Transcribe \/ PostProcess \/ ConnectDeepL
    \/ OpenSrt \/ WriteRecord \/ CloseSrt \/ RemoveAudio

Spec == Init /\ [][Next]_vars

----------------------------------------------------------------------------
(* Properties of post_process_segments *)

\* the segments as the merger reads them: trimmed text, whole milliseconds
RawSegment(k) == NewSub(segments[k])

\* the input is sorted by start_ms, no two segments overlap, none ends before it starts
InputSorted ==
    /\ \A k \in DOMAIN segments : RawSegment(k).start_ms <= RawSegment(k).end_ms
    /\ \A k \in 1 .. Len(segments) - 1 :
          /\ RawSegment(k).start_ms <= RawSegment(k + 1).start_ms
          /\ RawSegment(k).end_ms <= RawSegment(k + 1).start_ms

\* C1: in every step of the loop the next segment S is merged into the accumulator
\* (text + " " + S.text, end_ms = S.end_ms, start_ms and the output unchanged) if and
\* only if gap < merge_gap_threshold, merged length <= max_chars and merged
\* duration <= max_duration; otherwise the accumulator is closed and S starts a new one.
C1_MergeIffGuards ==
    [][(mpc = "loop" /\ i < Len(segments)) =>
        LET S == RawSegment(i + 1)
            guards ==
                /\ S.start_ms - current_sub.end_ms < merge_gap_threshold
                /\ Len(current_sub.text) + 1 + Len(S.text) <= max_chars_per_subtitle
                /\ S.end_ms - current_sub.start_ms <= max_sub_duration
            merged ==
                /\ current_sub' = [text |-> current_sub.text \o <<" ">> \o S.text,
                                   start_ms |-> current_sub.start_ms,
                                   end_ms |-> S.end_ms]
                /\ processed_subs' = processed_subs
            cut ==
                /\ current_sub' = S
                /\ Len(processed_subs') = Len(processed_subs) + 1
        IN  /\ merged <=> guards
            /\ cut <=> ~guards]_vars

\* a merge has happened with the merged length and the merged duration at their limits
C1_Witness ==
    /\ mpc = "loop" /\ parts >= 2
    /\ Len(current_sub.text) = max_chars_per_subtitle
    /\ current_sub.end_ms - current_sub.start_ms = max_sub_duration

\* C2: every record of the output lasts at least min_duration.
C2_MinDuration ==
    \A k \in DOMAIN processed_subs :
        processed_subs[k].end_ms - processed_subs[k].start_ms >= min_sub_duration

\* the only segment of the input is shorter than min_duration and has been returned
C2_Witness ==
    /\ mpc = "returned" /\ Len(segments) = 1 /\ Len(processed_subs) = 1
    /\ RawSegment(1).end_ms - RawSegment(1).start_ms < min_sub_duration

\* C3: for a sorted input, the start_ms of the output's records strictly increase.
C3_StartsStrictlyIncrease ==
    InputSorted =>
        \A k \in 1 .. Len(processed_subs) - 1 :
            processed_subs[k].start_ms < processed_subs[k + 1].start_ms

\* C4: for a sorted input, no record of the output ends after the next one starts.
C4_NoOverlap ==
    InputSorted =>
        \A k \in 1 .. Len(processed_subs) - 1 :
            processed_subs[k].end_ms <= processed_subs[k + 1].start_ms

\* C5: an accumulator that holds two or more segments, and every record of the
\* output built from two or more segments, has a text of at most max_chars
\* characters and, before the stretch, lasts at most max_duration.
C5_MergeKeepsLimits ==
    /\ (mpc = "loop" /\ parts >= 2) =>
          /\ Len(current_sub.text) <= max_chars_per_subtitle
          /\ current_sub.end_ms - current_sub.start_ms <= max_sub_duration
    /\ \A k \in DOMAIN processed_subs :
          built[k].parts >= 2 =>
            /\ Len(processed_subs[k].text) <= max_chars_per_subtitle
            /\ built[k].end_ms - processed_subs[k].start_ms <= max_sub_duration

\* a record built from two segments is in the output, its text at the limit
C5_Witness ==
    \E k \in DOMAIN processed_subs :
        /\ built[k].parts >= 2
        /\ Len(processed_subs[k].text) = max_chars_per_subtitle

----------------------------------------------------------------------------
(* Properties of wrap_text *)

\* C9: a word is appended to a line that is not empty if and only if the line's
\* length + 1 + the word's length <= max_chars_per_line; otherwise the line is
\* closed and the word starts a new one. The first line is no exception.
C9_GreedyPacking ==
    [][(wpc = "loop" /\ w <= Len(words) /\ current_line # <<>>) =>
        LET word == words[w]
            fits == Len(join(<<" ">>, current_line)) + 1 + Len(word)
                      <= max_chars_per_line
        IN  IF fits
            THEN /\ current_line' = Append(current_line, word)
                 /\ lines' = lines
            ELSE /\ current_line' = <<word>>
                 /\ lines' = Append(lines, join(<<" ">>, current_line))]_vars

\* C10: the output of a text that holds a word has no empty line.
C10_NoEmptyLine ==
    (wpc = "returned" /\ split(text) # <<>>) =>
        /\ \A k \in DOMAIN lines : lines[k] # <<>>
        /\ Head(wrapped) # "\n"

----------------------------------------------------------------------------
(* Properties of generate_srt_subtitles_with_whisper_deepl *)

\* the run has ended
Ended == pc \in {"done", "crashed", "exited"}

\* C6: when a run that created the temporary audio file ends, the file is deleted.
C6_TempAudioDeleted == (Ended /\ audio_created) => ~temp_audio

\* reading a timestamp HH:MM:SS,mmm back into milliseconds
DigitValue(c) == CHOOSE d \in 0 .. 9 : Digit(d) = c

RECURSIVE Number(_)
Number(d) ==
    IF d = <<>> THEN 0
    ELSE Number(SubSeq(d, 1, Len(d) - 1)) * 10 + DigitValue(d[Len(d)])

RECURSIVE FieldLen(_)
FieldLen(s) == IF s = <<>> \/ Head(s) \in {":", ","} THEN 0 ELSE 1 + FieldLen(Tail(s))

RECURSIVE Fields(_)
Fields(s) ==
    LET k == FieldLen(s)
    IN  IF k = Len(s) THEN <<s>>
        ELSE <<SubSeq(s, 1, k)>> \o Fields(SubSeq(s, k + 2, Len(s)))

Milliseconds(stamp) ==
    LET f == Fields(stamp)
    IN  ((Number(f[1]) * 60 + Number(f[2])) * 60 + Number(f[3])) * 1000 + Number(f[4])

\* the text a call must end up as: the service's text, or the original text
\* behind the tag of the error
Expected(call) ==
    CASE call.reply.kind = "ok" -> call.reply.text
      [] call.reply.kind = "DeepLException" ->
           <<"[", "T", "R", "A", "N", "S", "L", "A", "T", "I", "O", "N", " ",
             "E", "R", "R", "O", "R", "]", ":", " ">> \o call.text
      [] call.reply.kind = "Exception" ->
           <<"[", "U", "N", "E", "X", "P", "E", "C", "T", "E", "D", " ",
             "E", "R", "R", "O", "R", "]", ":", " ">> \o call.text

\* C7: whatever the translations' outcomes, translation is called once per merged
\* record in the merger's order, and each call is followed by one written record,
\* numbered from 1 without a gap, with the merger's start_ms and end_ms, whose text
\* is the translation or, after a failure, the error's tag and the original text;
\* a run that completes has written every merged record.
C7_OneRecordPerSub ==
    /\ Len(calls) <= Len(processed)
    /\ \A k \in DOMAIN calls : calls[k].text = processed[k].text
    /\ pc \in {"write", "remove", "done"} => Len(srt) = Len(calls)
    /\ pc \in {"remove", "done"} => Len(srt) = Len(processed)
    /\ Len(srt) <= Len(calls)
    /\ \A k \in DOMAIN srt :
          /\ srt[k].index = k
          /\ Milliseconds(srt[k].start) = processed[k].start_ms
          /\ Milliseconds(srt[k].end) = processed[k].end_ms
          /\ split(srt[k].text) = split(Expected(calls[k]))

\* a run has completed in which the first translation failed and a later one did not
C7_Witness ==
    /\ pc = "done" /\ Len(srt) >= 2
    /\ calls[1].reply.kind = "DeepLException"
    /\ calls[2].reply.kind = "ok"
    /\ srt[2].start # srt[1].start

\* C8: the output file is opened, and a record written, only after transcription and
\* the authentication have succeeded; a run that ends on the authentication failure
\* or before the transcription has succeeded leaves no output file.
C8_NoOutputBeforeFatalChecks ==
    /\ (srt_file # "absent" \/ srt # <<>>) =>
          (result.done /\ translator = "authenticated")
    /\ (pc = "exited" \/ (pc = "crashed" /\ ~result.done)) =>
          (srt_file = "absent" /\ srt = <<>> /\ exit_status = 1)

\* the authentication has failed after a transcript with a record to write
C8_Witness ==
    /\ pc = "exited" /\ result.done /\ processed # <<>>
    /\ srt_file = "absent"

====
